---- MODULE Spec2Model ----
(***************************************************************************)
(* Model of the screencare backend: PostureDetector                        *)
(* (src/backend/posture_detector.py) and the detection loop that publishes *)
(* its result (src/backend/app.py).                                        *)
(*                                                                         *)
(* Units.  Timestamps (time.time()) are whole seconds.  Face-size ratios   *)
(* are thousandths (0.18 is 180).  Eye aspect ratios are hundredths (0.3   *)
(* is 30).  Means and fractions are kept as exact rationals [num, den] and *)
(* compared by cross-multiplication, so that boundary ties are decided as  *)
(* the comparison operators of the source decide them.                     *)
(***************************************************************************)
EXTENDS Integers, Sequences, FiniteSets, TLC

(***************************************************************************)
(* Configuration and bounds                                                *)
(***************************************************************************)

\* app.py:260 PostureDetector(distance_threshold=0.18), in thousandths.
DistanceThreshold == 180

\* posture_detector.py:14 smoothing_frames (default 10), scaled down.
SmoothingFrames == 2

\* posture_detector.py:33-34 deque(maxlen=300), scaled down.
FrameHistoryMaxLen == 4

\* The span of time the behaviour window is documented to cover
\* (posture_detector.py:32 "tracks last 10 seconds of frames").
WindowSeconds == 10

\* The clock is not read beyond these values: under Spec, SpecPresence,
\* SpecRate, SpecHeal, SpecAlerts, SpecBlink, SpecGap,
\* SpecMinute, SpecSmooth, SpecConfig, SpecSpacing and SpecSkew.
MaxTime == 8
MaxPresenceTime == 31
MaxRateTime == 30
MaxHealTime == 2
MaxAlertTime == 60
MaxBlinkTime == 4
MaxGapTime == 3
MaxMinuteTime == 120
MaxSmoothTime == 5
MaxConfigTime == 4
MaxSpacingTime == 120
MaxSkewTime == 3

\* The blink counter and the closed-frame counter are not driven beyond these.
MaxBlinks == 2
MaxAlertBlinks == 8
MaxMinuteBlinks == 12
MaxSpacingBlinks == 2
MaxClosed == 5

\* Face-size ratios a frame may carry (thousandths): at and just above
\* 0.75 * T = 135 and T = 180.
FaceSizes == {100, 135, 136, 180, 181}

\* Eye aspect ratios a frame may carry (hundredths): closed, at the
\* threshold, open.
Ears == {20, 30, 50}

(***************************************************************************)
(* Helpers: rationals, optional values, bounded deques                     *)
(***************************************************************************)

Rat(n, d) == [num |-> n, den |-> d]

\* a > b and a >= b for rationals with positive denominators.
RatGT(a, b) == a.num * b.den > b.num * a.den
RatGE(a, b) == a.num * b.den >= b.num * a.den

\* a * b
RatMul(a, b) == Rat(a.num * b.num, a.den * b.den)

\* Python's None is the empty sequence, a value v is <<v>>.
None == <<>>
Some(v) == <<v>>

RECURSIVE Sum(_)
Sum(s) == IF s = <<>> THEN 0 ELSE Head(s) + Sum(Tail(s))

\* DequeAppend that drops the new entry, not the oldest, when full.
DequeAppendDropNew(q, x, maxlen) ==
    IF Len(q) >= maxlen THEN q ELSE Append(q, x)

\* collections.deque(maxlen=n).append(x): the oldest entry is dropped when
\* full; a deque of maxlen 0 stays empty.
DequeAppend(q, x, maxlen) ==
    IF maxlen = 0 THEN q
    ELSE IF Len(q) >= maxlen THEN Tail(q) \o <<x>>
    ELSE Append(q, x)

\* sum(1 for status in history if status in labels)
RECURSIVE Count(_, _)
Count(q, labels) ==
    IF q = <<>> THEN 0
    ELSE (IF Head(q) \in labels THEN 1 ELSE 0) + Count(Tail(q), labels)

\* while q and q[0] < cutoff: q.popleft()
RECURSIVE PopWhileOlder(_, _)
PopWhileOlder(q, cutoff) ==
    IF q # <<>> /\ Head(q) < cutoff THEN PopWhileOlder(Tail(q), cutoff) ELSE q

(***************************************************************************)
(* PostureDetector                                                         *)
(***************************************************************************)

\* PostureDetector.__init__ at clock reading now: the fields that hold state
\* or thresholds (the MediaPipe handles, landmark index lists and colours are
\* left out).
PostureDetector(distance_threshold, smoothing_frames, now) ==
    [ distance_threshold |-> distance_threshold,
      smoothing_frames |-> smoothing_frames,
      face_size_history |-> <<>>,
      no_face_duration |-> 0,
      last_face_time |-> now,
      frame_history |-> <<>>,
      frame_timestamps |-> <<>>,
      no_face_threshold |-> 30,
      warning_avg_threshold |-> Rat(3, 5),
      bad_avg_threshold |-> Rat(1, 2),
      blink_count |-> 0,
      frame_counter |-> 0,
      ear_threshold |-> 30,
      consec_frames |-> 4,
      blink_timestamps |-> <<>>,
      blink_rate_check_interval |-> 60,
      last_blink_rate_check |-> now,
      absolute_min_blinks_per_minute |-> 7,
      min_blinks_per_minute |-> 11,
      low_blink_rate_alert_triggered |-> FALSE ]

\* get_smoothed_face_size: None on an empty history, else the mean.
get_smoothed_face_size(d) ==
    IF d.face_size_history = <<>> THEN None
    ELSE Some(Rat(Sum(d.face_size_history), Len(d.face_size_history)))

\* update_blink_count with > in place of >= at consec_frames.
update_blink_count_gt(d, ear, now) ==
    IF ear < d.ear_threshold
    THEN [ d |-> [d EXCEPT !.frame_counter = @ + 1], blink_detected |-> FALSE ]
    ELSE IF d.frame_counter > d.consec_frames
         THEN [ d |-> [d EXCEPT !.blink_count = @ + 1,
                                !.blink_timestamps = Append(@, now),
                                !.frame_counter = 0],
                blink_detected |-> TRUE ]
         ELSE [ d |-> [d EXCEPT !.frame_counter = 0], blink_detected |-> FALSE ]

\* update_blink_count(ear), with now the value time.time() returns at line 134.
\* The result is the detector after the call and the value returned.
update_blink_count(d, ear, now) ==
    IF ear < d.ear_threshold
    THEN [ d |-> [d EXCEPT !.frame_counter = @ + 1], blink_detected |-> FALSE ]
    ELSE IF d.frame_counter >= d.consec_frames
         THEN [ d |-> [d EXCEPT !.blink_count = @ + 1,
                                !.blink_timestamps = Append(@, now),
                                !.frame_counter = 0],
                blink_detected |-> TRUE ]
         ELSE [ d |-> [d EXCEPT !.frame_counter = 0], blink_detected |-> FALSE ]

\* detect_blinks that takes a frame without landmarks for an eye-open sample.
detect_blinks_gap_open(d, frame, now) ==
    IF ~frame.lm THEN update_blink_count(d, d.ear_threshold, now)
    ELSE update_blink_count(d, frame.ear, now)

\* detect_blinks: frame.lm says whether Face Mesh found landmarks, frame.ear
\* is the mean of the two eyes' aspect ratios computed from them.
detect_blinks(d, frame, now) ==
    IF ~frame.lm THEN [ d |-> d, blink_detected |-> FALSE ]
    ELSE update_blink_count(d, frame.ear, now)

\* posture_status_of with >= in place of > at distance_threshold.
posture_status_bad_ge(smoothed_size, distance_threshold) ==
    IF smoothed_size = None THEN "good"
    ELSE IF RatGE(smoothed_size[1], Rat(distance_threshold, 1)) THEN "bad"
    ELSE IF RatGT(smoothed_size[1], RatMul(Rat(distance_threshold, 1), Rat(3, 4)))
         THEN "warning"
    ELSE "good"

\* posture_status_of with >= in place of > at 0.75 * distance_threshold.
posture_status_warning_ge(smoothed_size, distance_threshold) ==
    IF smoothed_size = None THEN "good"
    ELSE IF RatGT(smoothed_size[1], Rat(distance_threshold, 1)) THEN "bad"
    ELSE IF RatGE(smoothed_size[1], RatMul(Rat(distance_threshold, 1), Rat(3, 4)))
         THEN "warning"
    ELSE "good"

\* detect_posture lines 262-272: the label of a face-detected frame from the
\* smoothed size.
posture_status_of(smoothed_size, distance_threshold) ==
    IF smoothed_size = None THEN "good"
    ELSE IF RatGT(smoothed_size[1], Rat(distance_threshold, 1)) THEN "bad"
    ELSE IF RatGT(smoothed_size[1], RatMul(Rat(distance_threshold, 1), Rat(3, 4)))
         THEN "warning"
    ELSE "good"

\* face_branch whose no-face branch also empties the smoothing buffer.
face_branch_absent_clears(d, frame, current_time) ==
    IF frame.face
    THEN LET d1 == [d EXCEPT !.last_face_time = current_time,
                             !.no_face_duration = 0,
                             !.face_size_history =
                                 DequeAppend(@, frame.size, d.smoothing_frames)]
         IN [ d |-> d1,
              posture_status |->
                  posture_status_of(get_smoothed_face_size(d1), d1.distance_threshold) ]
    ELSE [ d |-> [d EXCEPT !.no_face_duration = current_time - d.last_face_time,
                           !.face_size_history = <<>>],
           posture_status |-> "good" ]

\* detect_posture lines 253-276: the face branch and the no-face branch.
\* The result is the detector after the branch and the frame's label.
face_branch(d, frame, current_time) ==
    IF frame.face
    THEN LET d1 == [d EXCEPT !.last_face_time = current_time,
                             !.no_face_duration = 0,
                             !.face_size_history =
                                 DequeAppend(@, frame.size, d.smoothing_frames)]
         IN [ d |-> d1,
              posture_status |->
                  posture_status_of(get_smoothed_face_size(d1), d1.distance_threshold) ]
    ELSE [ d |-> [d EXCEPT !.no_face_duration = current_time - d.last_face_time],
           posture_status |-> "good" ]

\* window_append that drops the new frame, not the oldest, once the window
\* is full.
window_append_keep_oldest(d, posture_status, current_time) ==
    IF Len(d.frame_history) >= FrameHistoryMaxLen THEN d
    ELSE [d EXCEPT !.frame_history = Append(@, posture_status),
                   !.frame_timestamps = Append(@, current_time)]

\* detect_posture lines 278-280: the frame joins the rolling window.
window_append(d, posture_status, current_time) ==
    [d EXCEPT !.frame_history = DequeAppend(@, posture_status, FrameHistoryMaxLen),
              !.frame_timestamps = DequeAppend(@, current_time, FrameHistoryMaxLen)]

\* window_alerts with > in place of >= at bad_avg_threshold.
window_alerts_bad_gt(d) ==
    LET bad_count == Count(d.frame_history, {"bad"})
        warning_or_bad_count == Count(d.frame_history, {"bad", "warning"})
        total_frames == Len(d.frame_history)
        bad_alert == total_frames > 0
                     /\ RatGT(Rat(bad_count, total_frames), d.bad_avg_threshold)
        warning_alert == total_frames > 0
                         /\ ~bad_alert
                         /\ RatGE(Rat(warning_or_bad_count, total_frames),
                                  d.warning_avg_threshold)
    IN [ bad_alert |-> bad_alert, warning_alert |-> warning_alert ]

\* detect_posture lines 283-297: bad_alert and warning_alert from the window.
window_alerts(d) ==
    LET bad_count == Count(d.frame_history, {"bad"})
        warning_or_bad_count == Count(d.frame_history, {"bad", "warning"})
        total_frames == Len(d.frame_history)
        bad_alert == total_frames > 0
                     /\ RatGE(Rat(bad_count, total_frames), d.bad_avg_threshold)
        warning_alert == total_frames > 0
                         /\ ~bad_alert
                         /\ RatGE(Rat(warning_or_bad_count, total_frames),
                                  d.warning_avg_threshold)
    IN [ bad_alert |-> bad_alert, warning_alert |-> warning_alert ]

\* no_face_alert_of with > in place of >=.
no_face_alert_gt(d) == d.no_face_duration > d.no_face_threshold

\* detect_posture lines 300-301.
no_face_alert_of(d) == d.no_face_duration >= d.no_face_threshold

\* blink_rate_check that runs a second early.
blink_rate_check_early(d, current_time) ==
    IF current_time - d.last_blink_rate_check >= d.blink_rate_check_interval - 1
    THEN LET cutoff_time == current_time - d.blink_rate_check_interval
             kept == PopWhileOlder(d.blink_timestamps, cutoff_time)
             blinks_per_minute == Len(kept)
             serious == blinks_per_minute < d.absolute_min_blinks_per_minute
             low == ~serious /\ blinks_per_minute < d.min_blinks_per_minute
         IN [ d |-> [d EXCEPT !.blink_timestamps = kept,
                              !.low_blink_rate_alert_triggered = serious \/ low,
                              !.last_blink_rate_check = current_time],
              serious_eye_strain |-> serious,
              low_blink_rate_alert |-> low ]
    ELSE [ d |-> d, serious_eye_strain |-> FALSE, low_blink_rate_alert |-> FALSE ]

\* blink_rate_check with <= in place of < at absolute_min_blinks_per_minute.
blink_rate_check_le(d, current_time) ==
    IF current_time - d.last_blink_rate_check >= d.blink_rate_check_interval
    THEN LET cutoff_time == current_time - d.blink_rate_check_interval
             kept == PopWhileOlder(d.blink_timestamps, cutoff_time)
             blinks_per_minute == Len(kept)
             serious == blinks_per_minute <= d.absolute_min_blinks_per_minute
             low == ~serious /\ blinks_per_minute < d.min_blinks_per_minute
         IN [ d |-> [d EXCEPT !.blink_timestamps = kept,
                              !.low_blink_rate_alert_triggered = serious \/ low,
                              !.last_blink_rate_check = current_time],
              serious_eye_strain |-> serious,
              low_blink_rate_alert |-> low ]
    ELSE [ d |-> d, serious_eye_strain |-> FALSE, low_blink_rate_alert |-> FALSE ]

\* blink_rate_check with the elif of line 319 an if: the second test no
\* longer depends on the first.
blink_rate_check_if(d, current_time) ==
    IF current_time - d.last_blink_rate_check >= d.blink_rate_check_interval
    THEN LET cutoff_time == current_time - d.blink_rate_check_interval
             kept == PopWhileOlder(d.blink_timestamps, cutoff_time)
             blinks_per_minute == Len(kept)
             serious == blinks_per_minute < d.absolute_min_blinks_per_minute
             low == blinks_per_minute < d.min_blinks_per_minute
         IN [ d |-> [d EXCEPT !.blink_timestamps = kept,
                              !.low_blink_rate_alert_triggered = serious \/ low,
                              !.last_blink_rate_check = current_time],
              serious_eye_strain |-> serious,
              low_blink_rate_alert |-> low ]
    ELSE [ d |-> d, serious_eye_strain |-> FALSE, low_blink_rate_alert |-> FALSE ]

\* detect_posture lines 304-326: the blink-rate check, run when at least
\* blink_rate_check_interval has passed since the last one.  serious is the
\* if of line 315, low the elif of line 319.  The result is the detector
\* after it and the two alerts of this frame.
blink_rate_check(d, current_time) ==
    IF current_time - d.last_blink_rate_check >= d.blink_rate_check_interval
    THEN LET cutoff_time == current_time - d.blink_rate_check_interval
             kept == PopWhileOlder(d.blink_timestamps, cutoff_time)
             blinks_per_minute == Len(kept)
             serious == blinks_per_minute < d.absolute_min_blinks_per_minute
             low == ~serious /\ blinks_per_minute < d.min_blinks_per_minute
         IN [ d |-> [d EXCEPT !.blink_timestamps = kept,
                              !.low_blink_rate_alert_triggered = serious \/ low,
                              !.last_blink_rate_check = current_time],
              serious_eye_strain |-> serious,
              low_blink_rate_alert |-> low ]
    ELSE [ d |-> d, serious_eye_strain |-> FALSE, low_blink_rate_alert |-> FALSE ]

\* detect_posture(frame).  t_blink is the clock reading of line 134 (taken
\* only when a blink is detected), current_time the reading of line 242.
\* The result is the detector after the call, the tuple returned (bbox left
\* out) and what detect_blinks returned.
detect_posture(d, frame, t_blink, current_time) ==
    LET b == detect_blinks(d, frame, t_blink)
        f == face_branch(b.d, frame, current_time)
        d2 == window_append(f.d, f.posture_status, current_time)
        w == window_alerts(d2)
        r == blink_rate_check(d2, current_time)
    IN [ d |-> r.d,
         blink_detected |-> b.blink_detected,
         ret |-> [ posture_status |-> f.posture_status,
                   face_size |-> IF frame.face THEN Some(frame.size) ELSE None,
                   is_face_detected |-> frame.face,
                   alerts |-> [ no_face_alert |-> no_face_alert_of(d2),
                                warning_alert |-> w.warning_alert,
                                bad_alert |-> w.bad_alert,
                                low_blink_rate_alert |-> r.low_blink_rate_alert,
                                serious_eye_strain |-> r.serious_eye_strain ] ] ]

(***************************************************************************)
(* app.py: the published status and one iteration of the detection loop    *)
(***************************************************************************)

\* app.py:33-38, the status served before any frame is processed.
InitialStatus ==
    [ posture_status |-> "good",
      face_size |-> None,
      is_face_detected |-> FALSE,
      alerts |-> [ bad_alert |-> FALSE, warning_alert |-> FALSE,
                   no_face_alert |-> FALSE, low_blink_rate_alert |-> FALSE ] ]

\* app.py:298-303, the status built from what detect_posture returned.
StatusOf(ret) ==
    [ posture_status |-> ret.posture_status,
      face_size |-> ret.face_size,
      is_face_detected |-> ret.is_face_detected,
      alerts |-> ret.alerts ]

VARIABLES
    detector,        \* the PostureDetector object (app.py global detector)
    clock,           \* the latest value time.time() returned
    frame,           \* what the perception models found in the latest frame
    result,          \* the latest tuple detect_posture returned
    blink_detected,  \* the latest value detect_blinks returned
    current_status,  \* app.py global current_status
    period,          \* seconds between two frames under SpecRate, else 0
    recent,          \* history: <<label, time>> of the frames of the last
                     \* WindowSeconds seconds (kept by SpecRate only)
    pushed,          \* history: the face sizes of all face-detected frames,
                     \* in arrival order (kept by SpecSmooth only)
    is_detecting,    \* app.py global is_detecting
    workers,         \* the threads /start has created: where each one is in
                     \* run_detection_loop and the tuple it holds
    heap,            \* the status dicts that exist, by identity
    status_ref,      \* the identity of the dict current_status names
    reader,          \* a /status request: where it is, the dict it loaded
                     \* and what it has serialised so far
    served,          \* the body of the latest /status response
    published        \* history: every status the global has named

\* The state of the Flask application around the detector (changed under
\* SpecServer and SpecStatus only).
server == <<is_detecting, workers, heap, status_ref, reader, served, published>>

vars == <<detector, clock, frame, result, blink_detected, current_status,
          period, recent, pushed, server>>

\* The threads /start may have alive at once, and the identities a status
\* dict may have (the one published, the one a reader holds, a new one).
Workers == {1, 2}
Objects == {1, 2, 3}
NoObject == 0

\* The refcount of a dict outside refs is zero: it is freed.
Collect(h, refs) == [o \in Objects |-> IF o \in refs THEN h[o] ELSE <<>>]

\* What a frame carries: whether Face Detection found a face and its size
\* ratio, whether Face Mesh found landmarks and the eye aspect ratio.
FrameOf(face, size, lm, ear) ==
    [ face |-> face, size |-> IF face THEN size ELSE 0,
      lm |-> lm, ear |-> IF lm THEN ear ELSE 0 ]

\* The value result holds before detect_posture has returned anything.
NoReturn ==
    [ posture_status |-> "good",
      face_size |-> None,
      is_face_detected |-> FALSE,
      alerts |-> [ no_face_alert |-> FALSE, warning_alert |-> FALSE,
                   bad_alert |-> FALSE, low_blink_rate_alert |-> FALSE,
                   serious_eye_strain |-> FALSE ] ]

\* The state around a detector just constructed at clock reading 0: no frame
\* read, nothing returned, the status of app.py:33-38 published.
Fresh ==
    /\ clock = 0
    /\ frame = FrameOf(FALSE, 0, FALSE, 0)
    /\ result = NoReturn
    /\ blink_detected = FALSE
    /\ current_status = InitialStatus
    /\ recent = <<>>
    /\ pushed = <<>>
    /\ is_detecting = FALSE
    /\ workers = [w \in Workers |-> [pc |-> "none", ret |-> NoReturn]]
    /\ heap = Collect([o \in Objects |-> InitialStatus], {1})
    /\ status_ref = 1
    /\ reader = [pc |-> "idle", ref |-> NoObject, head |-> <<>>]
    /\ served = <<>>
    /\ published = {InitialStatus}

\* app.py:379-381 init_detector() at clock reading 0, before any request.
Start ==
    /\ detector = PostureDetector(DistanceThreshold, SmoothingFrames, 0)
    /\ Fresh

Init == Start /\ period = 0

\* At least one frame has been processed (every frame joins the window).
Processed == detector.frame_history # <<>>

\* One iteration of run_detection_loop (app.py:283-323) on frame f: the clock
\* reads clock + dtb in update_blink_count and clock + dt in detect_posture.
\* maxtime, maxblinks and MaxClosed keep the clock and the counters bounded.
ProcessFrame(f, dtb, dt, maxtime, maxblinks) ==
    /\ dtb <= dt
    /\ clock + dt <= maxtime
    /\ (f.lm /\ f.ear < detector.ear_threshold) => detector.frame_counter < MaxClosed
    /\ LET r == detect_posture(detector, f, clock + dtb, clock + dt)
       IN /\ r.d.blink_count <= maxblinks
          /\ detector' = r.d
          /\ result' = r.ret
          /\ blink_detected' = r.blink_detected
          /\ current_status' = StatusOf(r.ret)
    /\ clock' = clock + dt
    /\ frame' = f
    /\ UNCHANGED server

(***************************************************************************)
(* Spec: one frame a second, with or without a face, of every size in      *)
(* FaceSizes, without landmarks.                                           *)
(***************************************************************************)

FaceFrame ==
    \E size \in FaceSizes :
        /\ ProcessFrame(FrameOf(TRUE, size, FALSE, 0), 0, 1, MaxTime, MaxBlinks)
        /\ UNCHANGED <<period, recent, pushed>>

NoFaceFrame ==
    /\ ProcessFrame(FrameOf(FALSE, 0, FALSE, 0), 0, 1, MaxTime, MaxBlinks)
    /\ UNCHANGED <<period, recent, pushed>>

Next == FaceFrame \/ NoFaceFrame

Spec == Init /\ [][Next]_vars

(***************************************************************************)
(* Claims checked under Spec                                               *)
(***************************************************************************)

\* The smoothed size of the latest frame, as numerator and denominator.
SmoothedNum == Sum(detector.face_size_history)
SmoothedDen == Len(detector.face_size_history)

\* The label the threshold table gives the smoothed size n/k under threshold T.
TableLabel(n, k, T) ==
    IF n > T * k THEN "bad"
    ELSE IF 4 * n > 3 * T * k THEN "warning"
    ELSE "good"

\* C1: on every frame where a face is detected, the label returned is the one
\* the table gives the smoothed size s (the mean of face_size_history after
\* the push): s > T bad, 0.75 T < s <= T warning, otherwise good.
C1_LabelFollowsTable ==
    (Processed /\ result.is_face_detected) =>
        result.posture_status =
            TableLabel(SmoothedNum, SmoothedDen, detector.distance_threshold)

\* C1 witness: a face frame whose own size is above T while the smoothed
\* size is not, labelled warning.
C1_Witness ==
    /\ Processed
    /\ result.is_face_detected
    /\ frame.size > detector.distance_threshold
    /\ SmoothedNum <= detector.distance_threshold * SmoothedDen
    /\ result.posture_status = "warning"

\* The latest frame has a face and the smoothing buffer is full of the one
\* value v.
HeldAt(v) ==
    /\ Processed
    /\ result.is_face_detected
    /\ Len(detector.face_size_history) = detector.smoothing_frames
    /\ \A i \in 1..Len(detector.face_size_history) : detector.face_size_history[i] = v

\* C2 as stated: with the face size held at v and the buffer full, v = T gives
\* bad and v = 0.75 T does not give warning.
C2_TiesAsStated ==
    \A v \in FaceSizes :
        /\ (HeldAt(v) /\ v = detector.distance_threshold)
               => result.posture_status = "bad"
        /\ (HeldAt(v) /\ 4 * v = 3 * detector.distance_threshold)
               => result.posture_status # "warning"

\* C2 amended: with the face size held at v and the buffer full, v = T gives
\* warning (bad needs s > T) and v = 0.75 T gives good.
C2_TiesAmended ==
    \A v \in FaceSizes :
        /\ (HeldAt(v) /\ v = detector.distance_threshold)
               => result.posture_status = "warning"
        /\ (HeldAt(v) /\ 4 * v = 3 * detector.distance_threshold)
               => result.posture_status = "good"

\* C2 witness: the buffer is full of the value 0.75 T and the label is good.
C2_Witness ==
    \E v \in FaceSizes :
        /\ 4 * v = 3 * detector.distance_threshold
        /\ HeldAt(v)
        /\ result.posture_status = "good"

\* C3: with total, bad and wb counted in the window after the append,
\* bad_alert is true exactly when bad / total >= 0.5 and warning_alert
\* exactly when bad_alert is false and wb / total >= 0.6.
C3_AlertsFollowFractions ==
    Processed =>
        LET total == Len(detector.frame_history)
            bad == Count(detector.frame_history, {"bad"})
            wb == Count(detector.frame_history, {"bad", "warning"})
        IN /\ result.alerts.bad_alert <=> (2 * bad >= total)
           /\ result.alerts.warning_alert <=>
                  (~result.alerts.bad_alert /\ 5 * wb >= 3 * total)

\* C3 witness: exactly half of a full window is bad and bad_alert is raised.
C3_Witness ==
    /\ Len(detector.frame_history) = FrameHistoryMaxLen
    /\ 2 * Count(detector.frame_history, {"bad"}) = Len(detector.frame_history)
    /\ result.alerts.bad_alert

\* C8 as stated: no posture alert is raised on a frame before the behaviour
\* window has filled, so a single bad frame on a fresh detector raises none.
C8_NoAlertBeforeWindowFull ==
    Len(detector.frame_history) < FrameHistoryMaxLen =>
        ~result.alerts.bad_alert /\ ~result.alerts.warning_alert

\* The last n entries of q.
LastN(q, n) == IF Len(q) > n THEN SubSeq(q, Len(q) - n + 1, Len(q)) ELSE q

\* C17: every processed frame appends exactly one entry, its label with its
\* timestamp, to the behaviour window (the oldest entry leaving a full
\* window); a frame without a face is labelled good and leaves
\* face_size_history as it was.
C17_EveryFrameJoinsWindow ==
    [][ /\ detector'.frame_history =
               LastN(Append(detector.frame_history, result'.posture_status),
                     FrameHistoryMaxLen)
        /\ detector'.frame_timestamps =
               LastN(Append(detector.frame_timestamps, clock'), FrameHistoryMaxLen)
        /\ ~frame'.face =>
               /\ result'.posture_status = "good"
               /\ detector'.face_size_history = detector.face_size_history ]_vars

\* Two frames without a face have followed a bad one: their good labels are
\* in the window and count in the total (1/3 bad, no alert), and the
\* smoothing buffer still holds the size of the first frame.
C17_Witness ==
    /\ ~frame.face
    /\ detector.frame_history = <<"bad", "good", "good">>
    /\ detector.frame_timestamps = <<1, 2, 3>>
    /\ detector.face_size_history = <<181>>
    /\ ~result.alerts.bad_alert

(***************************************************************************)
(* SpecPresence: frames with a face (one size) or without, the clock       *)
(* advancing by 1 s or by 29 s between frames.                             *)
(***************************************************************************)

PresenceDeltas == {1, 29}

SeenFrame ==
    \E dt \in PresenceDeltas :
        /\ ProcessFrame(FrameOf(TRUE, DistanceThreshold, FALSE, 0), 0, dt,
                        MaxPresenceTime, MaxBlinks)
        /\ UNCHANGED <<period, recent, pushed>>

MissingFrame ==
    \E dt \in PresenceDeltas :
        /\ ProcessFrame(FrameOf(FALSE, 0, FALSE, 0), 0, dt,
                        MaxPresenceTime, MaxBlinks)
        /\ UNCHANGED <<period, recent, pushed>>

NextPresence == SeenFrame \/ MissingFrame

SpecPresence == Init /\ [][NextPresence]_vars

\* C9: on every frame no_face_alert is true exactly when no face is detected
\* and now - last_face_time >= 30, last_face_time being the time of the most
\* recent face frame (construction time if none); a face frame leaves
\* no_face_duration = 0.
C9_NoFaceAlert ==
    [][ /\ result'.alerts.no_face_alert <=>
               (~frame'.face /\ clock' - detector.last_face_time >= 30)
        /\ detector'.last_face_time =
               IF frame'.face THEN clock' ELSE detector.last_face_time
        /\ frame'.face => detector'.no_face_duration = 0
        /\ ~frame'.face =>
               detector'.no_face_duration = clock' - detector.last_face_time
      ]_vars

\* C9 witness: a no-face frame exactly 30 s after the last face, alert raised.
C9_Witness ==
    /\ Processed
    /\ ~frame.face
    /\ clock - detector.last_face_time = 30
    /\ detector.last_face_time > 0
    /\ result.alerts.no_face_alert

(***************************************************************************)
(* SpecRate: a fixed frame rate.  The first frame is processed one period  *)
(* after construction and every later one a period after the one before;   *)
(* recent records the frames of the last WindowSeconds seconds.            *)
(***************************************************************************)

\* Seconds between two frames: a rate above and a rate below the
\* FrameHistoryMaxLen frames per WindowSeconds the window is sized for.
Periods == {2, 10}

\* Face sizes under SpecRate: below and above T.
RateSizes == {135, 181}

InitRate == Start /\ period \in Periods

\* The entries of q recorded no more than WindowSeconds before now.
RECURSIVE KeepRecent(_, _)
KeepRecent(q, now) ==
    IF q = <<>> THEN <<>>
    ELSE IF now - Head(q).time > WindowSeconds THEN KeepRecent(Tail(q), now)
    ELSE <<Head(q)>> \o KeepRecent(Tail(q), now)

RecordRecent ==
    recent' = KeepRecent(
                  Append(recent, [label |-> result'.posture_status, time |-> clock']),
                  clock')

RateFaceFrame ==
    \E size \in RateSizes :
        /\ ProcessFrame(FrameOf(TRUE, size, FALSE, 0), 0, period, MaxRateTime, MaxBlinks)
        /\ RecordRecent
        /\ UNCHANGED <<period, pushed>>

RateNoFaceFrame ==
    /\ ProcessFrame(FrameOf(FALSE, 0, FALSE, 0), 0, period, MaxRateTime, MaxBlinks)
    /\ RecordRecent
    /\ UNCHANGED <<period, pushed>>

NextRate == RateFaceFrame \/ RateNoFaceFrame

SpecRate == InitRate /\ [][NextRate]_vars

\* The number of entries of recent labelled bad.
RECURSIVE RecentBad(_)
RecentBad(q) ==
    IF q = <<>> THEN 0
    ELSE (IF Head(q).label = "bad" THEN 1 ELSE 0) + RecentBad(Tail(q))

\* C5 as stated: when the fractions of a frame at time now are computed, every
\* label counted in the behaviour window was recorded at a time t with
\* now - t <= 10 s, for any frame rate.
C5_WindowHoldsLastTenSeconds ==
    \A i \in 1..Len(detector.frame_timestamps) :
        clock - detector.frame_timestamps[i] <= WindowSeconds

\* C6 as stated: at a fixed frame rate, on a frame where at least half of the
\* frames processed during the last 10 s were labelled bad, bad_alert is true.
C6_HalfBadRaisesAlert ==
    (Processed /\ 2 * RecentBad(recent) >= Len(recent)) => result.alerts.bad_alert

(***************************************************************************)
(* SpecHeal: the detection loop keeps processing frames, several of them   *)
(* within one second.                                                      *)
(***************************************************************************)

HealDeltas == {0, 1}

HealFaceFrame ==
    \E size \in RateSizes, dt \in HealDeltas :
        /\ ProcessFrame(FrameOf(TRUE, size, FALSE, 0), 0, dt, MaxHealTime, MaxBlinks)
        /\ UNCHANGED <<period, recent, pushed>>

HealNoFaceFrame ==
    \E dt \in HealDeltas :
        /\ ProcessFrame(FrameOf(FALSE, 0, FALSE, 0), 0, dt, MaxHealTime, MaxBlinks)
        /\ UNCHANGED <<period, recent, pushed>>

NextHeal == HealFaceFrame \/ HealNoFaceFrame

\* The loop of run_detection_loop never stops iterating while is_detecting
\* holds.  A frame can be processed in every state (a step that leaves the
\* clock where it is is never blocked by MaxHealTime, and of two frames that
\* differ at least one changes the state), so <<NextHeal>>_vars is always
\* enabled and weak fairness, WF_vars(NextHeal), is the same as demanding
\* that such steps keep occurring.
HealFairness == []<><<NextHeal>>_vars

SpecHeal == Init /\ [][NextHeal]_vars /\ HealFairness

\* C7: from a state where bad_alert is true, if every later frame is labelled
\* good then bad_alert eventually becomes false (either it clears or a frame
\* that is not good arrives), and once false it stays false over every good
\* frame; no reset is involved.
C7_SelfHealing ==
    /\ [](  (result.alerts.bad_alert /\ result.posture_status = "good")
            => <>(~result.alerts.bad_alert \/ result.posture_status # "good") )
    /\ [][ (~result.alerts.bad_alert /\ result'.posture_status = "good")
               => ~result'.alerts.bad_alert ]_vars

\* C7 witness: good frames have cleared the alert while a bad label is still
\* the oldest entry of the full window.
C7_Witness ==
    /\ Len(detector.frame_history) = FrameHistoryMaxLen
    /\ detector.frame_history[1] = "bad"
    /\ \A i \in 2..Len(detector.frame_history) : detector.frame_history[i] = "good"
    /\ result.posture_status = "good"
    /\ ~result.alerts.bad_alert

(***************************************************************************)
(* SpecBlink: eye aspect ratios fed to update_blink_count one sample at a  *)
(* time, several of them within one second.                                *)
(***************************************************************************)

BlinkDeltas == {0, 1}

\* update_blink_count(ear) on the sample of a frame with landmarks.
BlinkSample ==
    \E ear \in Ears, dt \in BlinkDeltas :
        /\ clock + dt <= MaxBlinkTime
        /\ ear < detector.ear_threshold => detector.frame_counter < MaxClosed
        /\ LET r == update_blink_count(detector, ear, clock + dt)
           IN /\ r.d.blink_count <= MaxBlinks
              /\ detector' = r.d
              /\ blink_detected' = r.blink_detected
        /\ clock' = clock + dt
        /\ frame' = FrameOf(FALSE, 0, TRUE, ear)
        /\ UNCHANGED <<result, current_status, period, recent, pushed, server>>

NextBlink == BlinkSample

SpecBlink == Init /\ [][NextBlink]_vars

\* C10: a sample reports a blink (returns true, blink_count + 1, exactly one
\* timestamp appended) exactly when its ear >= 0.3 and the closed counter is
\* >= 4; a sample with ear >= 0.3 resets the counter to 0 and one below 0.3
\* adds 1 to it, so a closed run gives at most one blink and a run of 3 none.
C10_BlinkDebounce ==
    [][ LET open == frame'.ear >= 30
            blink == open /\ detector.frame_counter >= 4
        IN /\ blink_detected' <=> blink
           /\ detector'.blink_count = detector.blink_count + (IF blink THEN 1 ELSE 0)
           /\ detector'.blink_timestamps =
                  IF blink THEN Append(detector.blink_timestamps, clock')
                  ELSE detector.blink_timestamps
           /\ detector'.frame_counter =
                  IF open THEN 0 ELSE detector.frame_counter + 1
      ]_vars

\* C10 witness: the second blink, reported on a sample exactly at the
\* threshold that ends a closed run.
C10_Witness ==
    /\ blink_detected
    /\ frame.lm
    /\ frame.ear = 30
    /\ detector.blink_count = 2
    /\ detector.frame_counter = 0
    /\ Len(detector.blink_timestamps) = 2

(***************************************************************************)
(* SpecAlerts: frames with or without a face and with or without           *)
(* landmarks, processed within one second or a minute after the one        *)
(* before, so that the posture alerts and the blink-rate alerts all occur. *)
(***************************************************************************)

AlertDeltas == {0, 60}

\* Face sizes under SpecAlerts: above T.
AlertSizes == {181}

\* Eye aspect ratios under SpecAlerts: closed and open.
AlertEars == {20, 50}

AlertFaceFrame ==
    \E size \in AlertSizes, dt \in AlertDeltas :
        /\ ProcessFrame(FrameOf(TRUE, size, FALSE, 0), 0, dt, MaxAlertTime, MaxAlertBlinks)
        /\ UNCHANGED <<period, recent, pushed>>

AlertEyeFrame ==
    \E ear \in AlertEars, dt \in AlertDeltas :
        /\ ProcessFrame(FrameOf(FALSE, 0, TRUE, ear), 0, dt, MaxAlertTime, MaxAlertBlinks)
        /\ UNCHANGED <<period, recent, pushed>>

NextAlerts == AlertFaceFrame \/ AlertEyeFrame

SpecAlerts == Init /\ [][NextAlerts]_vars

\* Whether the alerts record a has the field k set.
Flag(a, k) == k \in DOMAIN a /\ a[k]

\* C4: in every alerts record detect_posture returns, and so in every status
\* the loop publishes, bad_alert and warning_alert are never both true and
\* serious_eye_strain and low_blink_rate_alert are never both true.
C4_AlertsExclusive ==
    \A a \in {result.alerts, current_status.alerts} :
        /\ ~(Flag(a, "bad_alert") /\ Flag(a, "warning_alert"))
        /\ ~(Flag(a, "serious_eye_strain") /\ Flag(a, "low_blink_rate_alert"))

\* C4 witness: a published status with bad_alert and low_blink_rate_alert
\* where the warning fraction is reached as well and the blink rate was
\* checked on this frame.
C4_Witness ==
    /\ Processed
    /\ current_status.alerts = result.alerts
    /\ result.alerts.bad_alert
    /\ 5 * Count(detector.frame_history, {"bad", "warning"})
           >= 3 * Len(detector.frame_history)
    /\ result.alerts.low_blink_rate_alert
    /\ detector.last_blink_rate_check = clock
    /\ Len(detector.blink_timestamps) >= 7

(***************************************************************************)
(* SpecGap: frames without a face whose landmarks come and go, with the    *)
(* eyes closed or open on the frames that have them.                       *)
(***************************************************************************)

GapDeltas == {0, 1}

\* Eye aspect ratios under SpecGap: closed and open.
GapEars == {20, 50}

\* Face Mesh found landmarks.
GapEyeFrame ==
    \E ear \in GapEars, dt \in GapDeltas :
        /\ ProcessFrame(FrameOf(FALSE, 0, TRUE, ear), dt, dt, MaxGapTime, MaxBlinks)
        /\ UNCHANGED <<period, recent, pushed>>

\* Face Mesh found none.
GapBlindFrame ==
    \E dt \in GapDeltas :
        /\ ProcessFrame(FrameOf(FALSE, 0, FALSE, 0), dt, dt, MaxGapTime, MaxBlinks)
        /\ UNCHANGED <<period, recent, pushed>>

NextGap == GapEyeFrame \/ GapBlindFrame

SpecGap == Init /\ [][NextGap]_vars

\* C11: on a frame without landmarks detect_blinks reports no blink and
\* leaves frame_counter, blink_count and blink_timestamps as they were, so a
\* closed run keeps its count across such frames.
C11_NoLandmarksNoUpdate ==
    [][ ~frame'.lm =>
            /\ blink_detected' = FALSE
            /\ detector'.frame_counter = detector.frame_counter
            /\ detector'.blink_count = detector.blink_count
            /\ detector'.blink_timestamps = detector.blink_timestamps ]_vars

\* A frame without landmarks has been processed in the middle of a closed
\* run that had reached three frames.
C11_Witness ==
    /\ Processed
    /\ ~frame.lm
    /\ detector.frame_counter = 3
    /\ detector.blink_count = 1

(***************************************************************************)
(* SpecMinute: two minutes of frames with landmarks, the eyes closing and  *)
(* opening, and the blink-rate check at the end of each minute.            *)
(***************************************************************************)

\* Clock advances between two frames: none, a minute.
MinuteDeltas == {0, 60}

\* Eye aspect ratios under SpecMinute: closed and open.
MinuteEars == {20, 50}

MinuteEyeFrame ==
    \E ear \in MinuteEars, dt \in MinuteDeltas :
        /\ ProcessFrame(FrameOf(FALSE, 0, TRUE, ear), dt, dt,
                        MaxMinuteTime, MaxMinuteBlinks)
        /\ UNCHANGED <<period, recent, pushed>>

NextMinute == MinuteEyeFrame

SpecMinute == Init /\ [][NextMinute]_vars

\* The number of entries of q that are at least cutoff.
RECURSIVE CountSince(_, _)
CountSince(q, cutoff) ==
    IF q = <<>> THEN 0
    ELSE (IF Head(q) >= cutoff THEN 1 ELSE 0) + CountSince(Tail(q), cutoff)

\* C12: when the blink-rate check runs at time now, with n the number of
\* recorded blink timestamps t >= now - 60 (the blink of this very frame
\* included, the older ones evicted): n < 7 gives serious_eye_strain alone,
\* 7 <= n < 11 gives low_blink_rate_alert alone, n >= 11 gives neither.
C12_BlinkRateTiers ==
    [][ (clock' - detector.last_blink_rate_check >= 60) =>
            LET n == CountSince(detector.blink_timestamps, clock' - 60)
                     + (IF blink_detected' THEN 1 ELSE 0)
            IN /\ Len(detector'.blink_timestamps) = n
               /\ detector'.last_blink_rate_check = clock'
               /\ result'.alerts.serious_eye_strain = (n < 7)
               /\ result'.alerts.low_blink_rate_alert = (7 <= n /\ n < 11) ]_vars

\* The check has just run on eleven blinks of the last minute, after an
\* older one was evicted, and raised neither alert.
C12_Witness ==
    /\ Processed
    /\ detector.last_blink_rate_check = clock
    /\ clock = 120
    /\ Len(detector.blink_timestamps) = 11
    /\ detector.blink_timestamps[1] = clock - 60
    /\ detector.blink_count = 12
    /\ ~result.alerts.serious_eye_strain
    /\ ~result.alerts.low_blink_rate_alert

\* C13 as stated: on a frame on which the blink-rate check does not run, the
\* reported low_blink_rate_alert and serious_eye_strain are those of the most
\* recent check.  Stated step by step: such a frame reports what the frame
\* before it reported (before the first frame: both false).
C13_AlertsCachedBetweenChecks ==
    [][ ~(clock' - detector.last_blink_rate_check >= 60) =>
            /\ result'.alerts.low_blink_rate_alert = result.alerts.low_blink_rate_alert
            /\ result'.alerts.serious_eye_strain = result.alerts.serious_eye_strain ]_vars

(***************************************************************************)
(* SpecSmooth: one frame a second, with a face of one of three sizes or    *)
(* without, every face size pushed being remembered in pushed.             *)
(***************************************************************************)

SmoothSizes == {100, 150, 181}

SmoothFaceFrame ==
    \E size \in SmoothSizes :
        /\ ProcessFrame(FrameOf(TRUE, size, FALSE, 0), 0, 1, MaxSmoothTime, MaxBlinks)
        /\ pushed' = Append(pushed, size)
        /\ UNCHANGED <<period, recent>>

SmoothNoFaceFrame ==
    /\ ProcessFrame(FrameOf(FALSE, 0, FALSE, 0), 0, 1, MaxSmoothTime, MaxBlinks)
    /\ UNCHANGED <<period, recent, pushed>>

NextSmooth == SmoothFaceFrame \/ SmoothNoFaceFrame

SpecSmooth == Init /\ [][NextSmooth]_vars

\* C18: after k face-detected frames the smoothing buffer holds exactly the
\* min(k, smoothing_frames) most recent face sizes in arrival order, and the
\* smoothed value is absent exactly when the buffer is empty.
C18_BufferHoldsMostRecent ==
    LET N == detector.smoothing_frames
        k == Len(pushed)
    IN /\ Len(detector.face_size_history) = (IF k < N THEN k ELSE N)
       /\ detector.face_size_history = LastN(pushed, N)
       /\ (get_smoothed_face_size(detector) = None)
              <=> (detector.face_size_history = <<>>)

\* More face-detected frames than the buffer holds have been processed, the
\* first of a size the later ones do not have, and the latest frame has no
\* face.
C18_Witness ==
    /\ Len(pushed) = detector.smoothing_frames + 1
    /\ \A i \in 2..Len(pushed) : pushed[i] # pushed[1]
    /\ pushed[2] # pushed[3]
    /\ ~frame.face
    /\ get_smoothed_face_size(detector) # None

(***************************************************************************)
(* SpecConfig: PostureDetector constructed with any of a few               *)
(* configurations, then fed one frame a second.                            *)
(***************************************************************************)

\* distance_threshold values passed to the constructor (thousandths).
ConfigThresholds == {0 - DistanceThreshold, 0, DistanceThreshold}

\* smoothing_frames values passed to the constructor.
ConfigCapacities == {0, SmoothingFrames}

ConfigSizes == {100, 181}

\* PostureDetector(distance_threshold, smoothing_frames): __init__ stores
\* both arguments as given (lines 22-24) and returns.
InitConfig ==
    /\ \E distance_threshold \in ConfigThresholds,
          smoothing_frames \in ConfigCapacities :
           detector = PostureDetector(distance_threshold, smoothing_frames, 0)
    /\ Fresh
    /\ period = 0

ConfigFaceFrame ==
    \E size \in ConfigSizes :
        /\ ProcessFrame(FrameOf(TRUE, size, FALSE, 0), 0, 1, MaxConfigTime, MaxBlinks)
        /\ UNCHANGED <<period, recent, pushed>>

ConfigNoFaceFrame ==
    /\ ProcessFrame(FrameOf(FALSE, 0, FALSE, 0), 0, 1, MaxConfigTime, MaxBlinks)
    /\ UNCHANGED <<period, recent, pushed>>

NextConfig == ConfigFaceFrame \/ ConfigNoFaceFrame

SpecConfig == InitConfig /\ [][NextConfig]_vars

\* C20 as stated: a detector with a non-positive distance_threshold or a
\* zero smoothing_frames is rejected at construction, so no detector that has
\* processed a frame has such a configuration.
C20_BadConfigNeverProcesses ==
    Processed => /\ detector.distance_threshold > 0
                 /\ detector.smoothing_frames > 0

(***************************************************************************)
(* The Flask application: /start and /stop requests, the threads /start    *)
(* creates running run_detection_loop statement by statement, and a        *)
(* /status request reading the published status while they run.  A         *)
(* request handler of /start or /stop is one step; the /status handler is  *)
(* three (load the global, serialise the first fields, serialise the       *)
(* alerts).  A call of detect_posture is one step: two threads may be      *)
(* inside the call at once (pc "detect"), and the calls then take effect   *)
(* one after the other.  All frames arrive within the same second.         *)
(*                                                                         *)
(* SpecServer: /start, /stop and the threads.                              *)
(* SpecStatus: /start, the first thread and /status.                       *)
(* SpecRestart: /start, /stop and the threads, every camera open and       *)
(* every frame read succeeding.                                            *)
(***************************************************************************)

ServerSizes == {181}

\* publish that updates the published dict in place.
publish_in_place(h, ref, held, snapshot) ==
    [ heap |-> [h EXCEPT ![ref] = snapshot], status_ref |-> ref ]

\* app.py:298-303: a new dict is built and the global is rebound to it; the
\* dict the global named before lives on only while a reader (held) has it.
publish(h, ref, held, snapshot) ==
    LET o == CHOOSE x \in Objects :
                 /\ x \notin {ref, held}
                 /\ \A y \in Objects : y \notin {ref, held} => x <= y
    IN [ heap |-> Collect([h EXCEPT ![o] = snapshot], {o, held}),
         status_ref |-> o ]

\* The worker thread w moves to pc, holding ret.
Goto(w, pc, ret) == workers' = [workers EXCEPT ![w] = [pc |-> pc, ret |-> ret]]

\* app.py:343-360 POST /start.
StartRequest ==
    /\ IF is_detecting
       THEN UNCHANGED <<is_detecting, workers>>
       ELSE \E w \in Workers :
                /\ workers[w].pc \in {"none", "done"}
                /\ \A v \in Workers : workers[v].pc \in {"none", "done"} => w <= v
                /\ is_detecting' = TRUE
                /\ Goto(w, "start", NoReturn)
    /\ UNCHANGED <<detector, clock, frame, result, blink_detected, current_status,
                   period, recent, pushed, heap, status_ref, reader, served,
                   published>>

\* app.py:363-370 POST /stop.
StopRequest ==
    /\ is_detecting' = FALSE
    /\ UNCHANGED <<detector, clock, frame, result, blink_detected, current_status,
                   period, recent, pushed, workers, heap, status_ref, reader,
                   served, published>>

\* app.py:271-281: the thread opens the camera; if it cannot, it returns
\* through the finally clause.
WorkerOpen(w) ==
    /\ workers[w].pc = "start"
    /\ \E opened \in BOOLEAN :
           Goto(w, IF opened THEN "loop" ELSE "finally", NoReturn)
    /\ UNCHANGED <<detector, clock, frame, result, blink_detected, current_status,
                   period, recent, pushed, is_detecting, heap, status_ref, reader,
                   served, published>>

\* WorkerLoop that never tests is_detecting (while True).
WorkerLoopDeaf(w) ==
    /\ workers[w].pc = "loop"
    /\ \E ret \in BOOLEAN :
           Goto(w, IF ret THEN "detect" ELSE "finally", NoReturn)
    /\ UNCHANGED <<detector, clock, frame, result, blink_detected, current_status,
                   period, recent, pushed, is_detecting, heap, status_ref, reader,
                   served, published>>

\* app.py:283-287: the test of the while loop and cap.read().  The loop is
\* left when is_detecting is false or when no frame could be read.
WorkerLoop(w) ==
    /\ workers[w].pc = "loop"
    /\ IF is_detecting
       THEN \E ret \in BOOLEAN :
                /\ Goto(w, IF ret THEN "detect" ELSE "finally", NoReturn)
       ELSE Goto(w, "finally", NoReturn)
    /\ UNCHANGED <<detector, clock, frame, result, blink_detected, current_status,
                   period, recent, pushed, is_detecting, heap, status_ref, reader,
                   served, published>>

\* app.py:295: detect_posture on the frame read.
WorkerDetect(w) ==
    /\ workers[w].pc = "detect"
    /\ \E f \in {FrameOf(FALSE, 0, FALSE, 0)}
                 \cup {FrameOf(TRUE, size, FALSE, 0) : size \in ServerSizes} :
           LET r == detect_posture(detector, f, clock, clock)
           IN /\ detector' = r.d
              /\ result' = r.ret
              /\ blink_detected' = r.blink_detected
              /\ frame' = f
              /\ Goto(w, "publish", r.ret)
    /\ UNCHANGED <<clock, current_status, period, recent, pushed, is_detecting, heap,
                   status_ref, reader, served, published>>

\* app.py:298-323: the status is published, then the thread sleeps and goes
\* back to the test of the loop.
WorkerPublish(w) ==
    /\ workers[w].pc = "publish"
    /\ LET snapshot == StatusOf(workers[w].ret)
           p == publish(heap, status_ref, reader.ref, snapshot)
       IN /\ heap' = p.heap
          /\ status_ref' = p.status_ref
          /\ current_status' = snapshot
          /\ published' = published \cup {snapshot}
    /\ Goto(w, "loop", NoReturn)
    /\ UNCHANGED <<detector, clock, frame, result, blink_detected, period, recent,
                   pushed, is_detecting, reader, served>>

\* app.py:325-330: the camera is released and the finally clause clears
\* is_detecting.
WorkerFinally(w) ==
    /\ workers[w].pc = "finally"
    /\ is_detecting' = FALSE
    /\ Goto(w, "done", NoReturn)
    /\ UNCHANGED <<detector, clock, frame, result, blink_detected, current_status,
                   period, recent, pushed, heap, status_ref, reader, served,
                   published>>

WorkerStep(w) ==
    \/ WorkerOpen(w)
    \/ WorkerLoop(w)
    \/ WorkerDetect(w)
    \/ WorkerPublish(w)
    \/ WorkerFinally(w)

\* app.py:376 GET /status: the global current_status is loaded.
StatusLoad ==
    /\ reader.pc = "idle"
    /\ reader' = [pc |-> "loaded", ref |-> status_ref, head |-> <<>>]
    /\ UNCHANGED <<detector, clock, frame, result, blink_detected, current_status,
                   period, recent, pushed, is_detecting, workers, heap, status_ref,
                   served, published>>

\* jsonify serialises posture_status, face_size and is_face_detected of the
\* dict it was given.
StatusHead ==
    /\ reader.pc = "loaded"
    /\ reader' = [reader EXCEPT
                      !.pc = "head",
                      !.head = [ posture_status |-> heap[reader.ref].posture_status,
                                 face_size |-> heap[reader.ref].face_size,
                                 is_face_detected |-> heap[reader.ref].is_face_detected ]]
    /\ UNCHANGED <<detector, clock, frame, result, blink_detected, current_status,
                   period, recent, pushed, is_detecting, workers, heap, status_ref,
                   served, published>>

\* jsonify serialises alerts and the response is sent; the handler drops its
\* reference to the dict.
StatusAlerts ==
    /\ reader.pc = "head"
    /\ served' = [ posture_status |-> reader.head.posture_status,
                   face_size |-> reader.head.face_size,
                   is_face_detected |-> reader.head.is_face_detected,
                   alerts |-> heap[reader.ref].alerts ]
    /\ reader' = [pc |-> "idle", ref |-> NoObject, head |-> <<>>]
    /\ heap' = Collect(heap, {status_ref})
    /\ UNCHANGED <<detector, clock, frame, result, blink_detected, current_status,
                   period, recent, pushed, is_detecting, workers, status_ref,
                   published>>

NextServer ==
    \/ StartRequest
    \/ StopRequest
    \/ \E w \in Workers : WorkerStep(w)

SpecServer == Init /\ [][NextServer]_vars

\* The thread w has been started and has not returned.
Alive(w) == workers[w].pc \in {"start", "loop", "detect", "publish", "finally"}

\* The interpreter keeps scheduling every thread that can run.  A thread
\* can take a step exactly when it is alive, so this is WF_vars(WorkerStep(w))
\* for every w, written without ENABLED.
ServerFairness ==
    \A w \in Workers : []<>(~Alive(w)) \/ []<><<WorkerStep(w)>>_vars

SpecServerFair == SpecServer /\ ServerFairness

\* C16: cooperative stop.  While is_detecting stays false (a /stop and no
\* later /start) every thread alive eventually returns.  Step by step: a
\* thread inside detect_posture goes on to publish; a thread holding a result
\* publishes exactly that result and goes back to the test of the loop; a
\* thread at the test that finds the flag false leaves the loop; a thread
\* that has left the loop only returns; and the published status changes in
\* no other step than the publish step of a thread.
C16_CooperativeStop ==
    /\ \A w \in Workers :
           []( (Alive(w) /\ ~is_detecting)
                   => <>(workers[w].pc = "done" \/ is_detecting) )
    /\ [][ /\ \A w \in Workers :
               workers'[w] # workers[w] =>
                   /\ workers[w].pc = "detect" => workers'[w].pc = "publish"
                   /\ workers[w].pc = "publish" =>
                          /\ workers'[w].pc = "loop"
                          /\ current_status' = StatusOf(workers[w].ret)
                          /\ heap'[status_ref'] = StatusOf(workers[w].ret)
                   /\ (workers[w].pc = "loop" /\ ~is_detecting) =>
                          workers'[w].pc = "finally"
                   /\ workers[w].pc = "finally" => workers'[w].pc = "done"
           /\ (status_ref' # status_ref \/ heap'[status_ref'] # heap[status_ref]) =>
                  \E w \in Workers : /\ workers[w].pc = "publish"
                                      /\ workers'[w].pc = "loop" ]_vars

\* A /stop has arrived while the only thread holds the result of a frame it
\* has not yet published.
C16_Witness ==
    /\ ~is_detecting
    /\ workers[1].pc = "publish"
    /\ workers[2].pc = "none"
    /\ StatusOf(workers[1].ret) # current_status

NextStatus ==
    \/ StartRequest
    \/ WorkerStep(1)
    \/ StatusLoad
    \/ StatusHead
    \/ StatusAlerts

SpecStatus == Init /\ [][NextStatus]_vars

\* C14 as stated: at no time are two detection workers inside the loop
\* calling detector.detect_posture.
C14_SingleWorker ==
    Cardinality({w \in Workers : workers[w].pc = "detect"}) <= 1

\* The first fields of a status, as StatusHead serialises them.
HeadOf(status) ==
    [ posture_status |-> status.posture_status,
      face_size |-> status.face_size,
      is_face_detected |-> status.is_face_detected ]

\* C15: a /status read running while the worker publishes never observes a
\* partially updated record.  The dict a request is serialising is a status
\* that was published whole (the initial one or that of one processed frame)
\* and what has been serialised so far was read from it as it still is; the
\* body of a response is such a status.
C15_StatusReadIsAtomic ==
    /\ reader.pc \in {"loaded", "head"} => heap[reader.ref] \in published
    /\ reader.pc = "head" => reader.head = HeadOf(heap[reader.ref])
    /\ served # <<>> => served \in published

\* A request has serialised the first fields of the initial status, and
\* the worker has meanwhile published the status of a frame that differs
\* from it in those fields and in the alerts.
C15_Witness ==
    /\ reader.pc = "head"
    /\ reader.ref # status_ref
    /\ heap[reader.ref] = InitialStatus
    /\ reader.head # HeadOf(heap[status_ref])
    /\ heap[status_ref].alerts.bad_alert

\* C19 as stated: the body of every /status response, the one served before
\* any frame was processed included, has all five alert fields, each a
\* boolean.
C19_FiveAlertFields ==
    served # <<>> =>
        /\ DOMAIN served.alerts =
               {"no_face_alert", "warning_alert", "bad_alert",
                "low_blink_rate_alert", "serious_eye_strain"}
        /\ \A k \in DOMAIN served.alerts : served.alerts[k] \in BOOLEAN

\* C21 as stated, for the only re-initialisation the application offers (a
\* /stop followed by a /start): when /start begins a run while no thread of
\* an earlier run is alive, the status a query returns and the state of the
\* detector are those of a freshly constructed detector with the same
\* configuration, whatever frames were processed before.
C21_RestartIsFresh ==
    [][ ( /\ ~is_detecting
          /\ is_detecting'
          /\ \A w \in Workers : ~Alive(w) )
        => /\ current_status' = InitialStatus
           /\ heap'[status_ref'] = InitialStatus
           /\ detector' = PostureDetector(detector.distance_threshold,
                                          detector.smoothing_frames, clock') ]_vars

(***************************************************************************)
(* SpecSpacing: two minutes of frames with landmarks, the clock advancing  *)
(* by 0, 30 or 59 s between frames, so that frames fall 59 s and 60 s      *)
(* after construction and after a blink-rate check.                        *)
(***************************************************************************)

SpacingDeltas == {0, 30, 59}

\* Eye aspect ratios under SpecSpacing: closed and open.
SpacingEars == {20, 50}

SpacingEyeFrame ==
    \E ear \in SpacingEars, dt \in SpacingDeltas :
        /\ ProcessFrame(FrameOf(FALSE, 0, TRUE, ear), dt, dt,
                        MaxSpacingTime, MaxSpacingBlinks)
        /\ UNCHANGED <<period, recent, pushed>>

NextSpacing == SpacingEyeFrame

SpecSpacing == Init /\ [][NextSpacing]_vars

\* C22: blink-rate checks are at least 60 s of frame clock apart.
\* last_blink_rate_check is the construction time until the first check and
\* changes only to the time of a frame at least 60 s later; a frame less
\* than 60 s after it runs no check: it raises neither blink alert, prunes
\* nothing from blink_timestamps (which gains at most the blink of that
\* frame) and leaves low_blink_rate_alert_triggered and
\* last_blink_rate_check as they were.
C22_ChecksSpacedByInterval ==
    /\ [][ detector'.last_blink_rate_check # detector.last_blink_rate_check =>
               /\ detector'.last_blink_rate_check = clock'
               /\ clock' - detector.last_blink_rate_check >= 60 ]_vars
    /\ [][ clock' - detector.last_blink_rate_check < 60 =>
               /\ detector'.last_blink_rate_check = detector.last_blink_rate_check
               /\ detector'.low_blink_rate_alert_triggered =
                      detector.low_blink_rate_alert_triggered
               /\ detector'.blink_timestamps =
                      (IF blink_detected'
                       THEN Append(detector.blink_timestamps, clock')
                       ELSE detector.blink_timestamps)
               /\ ~result'.alerts.serious_eye_strain
               /\ ~result'.alerts.low_blink_rate_alert ]_vars

\* A frame 59 s after the check of t = 60 has run no check: a blink recorded
\* at t = 0 is still in blink_timestamps, 119 s later.
C22_Witness ==
    /\ clock = 119
    /\ detector.last_blink_rate_check = 60
    /\ detector.low_blink_rate_alert_triggered
    /\ detector.blink_timestamps # <<>>
    /\ detector.blink_timestamps[1] = 0
    /\ ~result.alerts.serious_eye_strain

(***************************************************************************)
(* SpecSkew: frames with or without a face, read from a wall clock         *)
(* (time.time()) that may be set back a second between two frames.         *)
(***************************************************************************)

\* Clock changes between two frames: set back a second, none, a second on.
SkewDeltas == {0 - 1, 0, 1}

SkewSizes == {181}

SkewFaceFrame ==
    \E size \in SkewSizes, dt \in SkewDeltas :
        /\ clock + dt >= 0
        /\ ProcessFrame(FrameOf(TRUE, size, FALSE, 0), dt, dt, MaxSkewTime, MaxBlinks)
        /\ UNCHANGED <<period, recent, pushed>>

SkewNoFaceFrame ==
    \E dt \in SkewDeltas :
        /\ clock + dt >= 0
        /\ ProcessFrame(FrameOf(FALSE, 0, FALSE, 0), dt, dt, MaxSkewTime, MaxBlinks)
        /\ UNCHANGED <<period, recent, pushed>>

NextSkew == SkewFaceFrame \/ SkewNoFaceFrame

SpecSkew == Init /\ [][NextSkew]_vars

\* C23 as stated: the timestamps of the behaviour window never decrease from
\* oldest to newest, the clock being set back included.
C23_TimestampsMonotonic ==
    \A i \in 1..(Len(detector.frame_timestamps) - 1) :
        detector.frame_timestamps[i] <= detector.frame_timestamps[i + 1]

\* C24 as stated: no_face_duration is never negative, a clock reading
\* earlier than last_face_time on a frame without a face included.
C24_DurationNeverNegative == detector.no_face_duration >= 0

(***************************************************************************)
(* SpecRestart                                                             *)
(***************************************************************************)

\* A step of the thread w in which the camera opens (cap.isOpened()) and a
\* frame is read (ret) whenever the thread asks.
WorkerStepCameraFine(w) ==
    /\ WorkerStep(w)
    /\ workers[w].pc = "start" => workers'[w].pc = "loop"
    /\ (workers[w].pc = "loop" /\ is_detecting) => workers'[w].pc = "detect"

NextRestart ==
    \/ StartRequest
    \/ StopRequest
    \/ \E w \in Workers : WorkerStepCameraFine(w)

SpecRestart == Init /\ [][NextRestart]_vars

\* C25 as stated: with every camera open and frame read succeeding,
\* is_detecting, once set by /start, is cleared by a /stop request only (a
\* step that leaves every thread where it is); the finally clause of a
\* thread that has left the loop never clears it for a newer run.
C25_OnlyStopClearsFlag ==
    [][ (is_detecting /\ ~is_detecting') => workers' = workers ]_vars

====
